---- MODULE Spec2Model ----
(***************************************************************************)
(* playlistbot: SpotifyPlaylist.add / SpotifyPlaylist.remove               *)
(* (src/playlist-bot/playlist.py; spotify.py holds the same two methods    *)
(* under the names add_track / remove_tracks).                             *)
(*                                                                         *)
(* The remote service is modelled by `remote`, the ordered contents of     *)
(* each playlist.  Every call on self.spotify is one step that either      *)
(* returns or raises SpotifyException; the code between two remote calls   *)
(* runs in the step of the call that precedes it.                          *)
(***************************************************************************)
EXTENDS Integers, Sequences, FiniteSets, TLC

\* playlist.py:21  SONG_LIMIT = 1e4, scaled down.
SONG_LIMIT == 3

\* Number of items the remote returns per page (100 at the real service).
PageSize == 2
\* Longest batch handed to add; above SONG_LIMIT so that the guard is met.
MaxBatch == 4
\* Track identifiers are 1..NumTracks.
NumTracks == 4
\* add is not called again on a playlist whose remote length or cached
\* count has passed these.
MaxRemote == 3
MaxCount == 4
\* The walk counter saturates here.
MaxWalks == 2

PlaylistIDs == {"A", "B"}
Callers == {1, 2}
TrackIDs == 1..NumTracks

VARIABLES
    remote,          \* remote service: playlist id -> sequence of track ids
    playlist_count,  \* self.playlist_count (a Counter: a missing key reads 0)
    pc,              \* per caller: the remote call it is about to make
    playlist_id,     \* per caller: argument playlist_id of add
    batch,           \* per caller: argument tracks of add
    page,            \* per caller: local `tracks` of remove (a paging object)
    remove_ids,      \* per caller: local `remove` of remove
    result,          \* per caller: how the last add ended
    obs,             \* per caller: what the current add has done so far
    walks            \* per playlist: how many size walks were started

vars == <<remote, playlist_count, pc, playlist_id, batch, page, remove_ids,
          result, obs, walks>>

Min(a, b) == IF a < b THEN a ELSE b

\* ---------------------------------------------------------------- remote

\* The paging object the remote returns for the items after `offset`:
\* its items, "total", and whether a page follows.  "total" is the number
\* of items on this page, the contract of the remote client's FetchPage
\* (items, totalOnThisPage, nextPageToken) that playlist.py:115 sums.
PageAt(contents, offset) ==
    LET last == Min(offset + PageSize, Len(contents))
        items == SubSeq(contents, offset + 1, last)
    IN  [items  |-> items,
         total  |-> Len(items),
         next   |-> Len(contents) > last,
         offset |-> last]

\* user_playlist_remove_all_occurrences_of_tracks: every occurrence of every
\* listed identifier goes.
RemoveAllOccurrences(contents, ids) ==
    SelectSeq(contents, LAMBDA t : \A i \in 1..Len(ids) : ids[i] # t)

\* user_playlist_add_tracks: the tracks are appended in the given order.
AddTracks(contents, tracks) == contents \o tracks

\* ---------------------------------------------------------------- helpers

\* Batches handed to add: n consecutive identifiers starting at s (wrapping).
Batch(s, n) == [i \in 1..n |-> ((s + i - 2) % NumTracks) + 1]

\* Initial remote contents: 1..k in order, at most SONG_LIMIT, no duplicates.
InitContents == {[i \in 1..k |-> i] : k \in 0..SONG_LIMIT}

NoPage == [items |-> <<>>, total |-> 0, next |-> FALSE, offset |-> 0]
NoResult == [exc |-> "none", at |-> "none"]
NoObs == [count0 |-> 0, remote0 |-> <<>>, n |-> -1, removeCalls |-> 0,
          addCalls |-> 0, removed |-> <<>>, evictFrom |-> <<>>,
          evicted |-> FALSE, walked |-> FALSE]

\* A scan that collects from the end of the page instead of its start.
RemoveListFromEnd(items, n) ==
    SubSeq(items, Len(items) - Min(n, Len(items)) + 1, Len(items))

\* playlist.py:97-104: the identifiers of the first n items of the page.
RemoveList(items, n) == SubSeq(items, 1, Min(n, Len(items)))

Raise(c, exc, at) ==
    /\ pc' = [pc EXCEPT ![c] = "done"]
    /\ result' = [result EXCEPT ![c] = [exc |-> exc, at |-> at]]

\* ---------------------------------------------------------------- actions

Init ==
    /\ remote \in [PlaylistIDs -> InitContents]
    /\ playlist_count = [p \in PlaylistIDs |-> 0]
    /\ pc = [c \in Callers |-> "idle"]
    /\ playlist_id = [c \in Callers |-> "A"]
    /\ batch = [c \in Callers |-> <<>>]
    /\ page = [c \in Callers |-> NoPage]
    /\ remove_ids = [c \in Callers |-> <<>>]
    /\ result = [c \in Callers |-> NoResult]
    /\ obs = [c \in Callers |-> NoObs]
    /\ walks = [p \in PlaylistIDs |-> 0]

\* add(playlist_id, tracks) is called with a playlist of P; it calls remove,
\* whose first statement is the user_playlist request.
AddCall(c, P) ==
    /\ pc[c] \in {"idle", "done"}
    /\ \E p \in P, s \in TrackIDs, n \in 0..MaxBatch :
        /\ n = 0 => s = 1
        /\ Len(remote[p]) <= MaxRemote
        /\ playlist_count[p] <= MaxCount
        /\ playlist_id' = [playlist_id EXCEPT ![c] = p]
        /\ batch' = [batch EXCEPT ![c] = Batch(s, n)]
        /\ obs' = [obs EXCEPT ![c] = [NoObs EXCEPT
                        !.count0 = playlist_count[p],
                        !.remote0 = remote[p]]]
    /\ pc' = [pc EXCEPT ![c] = "user_playlist"]
    /\ page' = [page EXCEPT ![c] = NoPage]
    /\ remove_ids' = [remove_ids EXCEPT ![c] = <<>>]
    /\ result' = [result EXCEPT ![c] = NoResult]
    /\ UNCHANGED <<remote, playlist_count, walks>>

\* playlist.py:80-84 raises: remove and add have no handler around it.
UserPlaylistFails(c) ==
    /\ pc[c] = "user_playlist"
    /\ Raise(c, "SpotifyException", "user_playlist")
    /\ UNCHANGED <<remote, playlist_count, playlist_id, batch, page,
                   remove_ids, obs, walks>>

\* A comparison with SONG_LIMIT that is off by one: eviction is entered one
\* track early.
UserPlaylistReturnsEarly(c) ==
    LET p == playlist_id[c]
        n_tracks == Len(batch[c])
        tracks == PageAt(remote[p], 0)
        total_tracks == playlist_count[p] + n_tracks
        n == total_tracks - SONG_LIMIT
    IN
    /\ pc[c] = "user_playlist"
    /\ page' = [page EXCEPT ![c] = tracks]
    /\ IF total_tracks + 1 >= SONG_LIMIT
       THEN IF n > playlist_count[p]
            THEN /\ Raise(c, "TypeError", "guard")
                 /\ obs' = [obs EXCEPT ![c].n = n]
                 /\ UNCHANGED <<remove_ids, walks>>
            ELSE /\ pc' = [pc EXCEPT ![c] = "remove_call"]
                 /\ remove_ids' = [remove_ids EXCEPT
                                     ![c] = RemoveList(tracks.items, n)]
                 /\ obs' = [obs EXCEPT ![c].n = n]
                 /\ UNCHANGED <<result, walks>>
       ELSE IF playlist_count[p] = 0
            THEN /\ pc' = [pc EXCEPT ![c] = "walk"]
                 /\ walks' = [walks EXCEPT ![p] = Min(@ + 1, MaxWalks)]
                 /\ obs' = [obs EXCEPT ![c].walked = TRUE]
                 /\ UNCHANGED <<remove_ids, result>>
            ELSE /\ pc' = [pc EXCEPT ![c] = "add_call"]
                 /\ UNCHANGED <<remove_ids, result, obs, walks>>
    /\ UNCHANGED <<remote, playlist_count, playlist_id, batch>>

\* playlist.py:80-105: the first page arrives; total_tracks is compared
\* with SONG_LIMIT and the branch is taken up to its first remote call.
UserPlaylistReturns(c) ==
    LET p == playlist_id[c]
        n_tracks == Len(batch[c])
        tracks == PageAt(remote[p], 0)
        total_tracks == playlist_count[p] + n_tracks
        n == total_tracks - SONG_LIMIT
    IN
    /\ pc[c] = "user_playlist"
    /\ page' = [page EXCEPT ![c] = tracks]
    /\ IF total_tracks >= SONG_LIMIT
       THEN IF n > playlist_count[p]
            THEN \* raise PlaylistError(...): PlaylistError is a plain class
                 \* (playlist.py:25), so building it with an argument is a
                 \* TypeError.
                 /\ Raise(c, "TypeError", "guard")
                 /\ obs' = [obs EXCEPT ![c].n = n]
                 /\ UNCHANGED <<remove_ids, walks>>
            ELSE /\ pc' = [pc EXCEPT ![c] = "remove_call"]
                 /\ remove_ids' = [remove_ids EXCEPT
                                     ![c] = RemoveList(tracks.items, n)]
                 /\ obs' = [obs EXCEPT ![c].n = n]
                 /\ UNCHANGED <<result, walks>>
       ELSE IF playlist_count[p] = 0
            THEN /\ pc' = [pc EXCEPT ![c] = "walk"]
                 /\ walks' = [walks EXCEPT ![p] = Min(@ + 1, MaxWalks)]
                 /\ obs' = [obs EXCEPT ![c].walked = TRUE]
                 /\ UNCHANGED <<remove_ids, result>>
            ELSE /\ pc' = [pc EXCEPT ![c] = "add_call"]
                 /\ UNCHANGED <<remove_ids, result, obs, walks>>
    /\ UNCHANGED <<remote, playlist_count, playlist_id, batch>>

\* A removal failure that still books the eviction in the cached count.
RemoveCallFailsCounted(c) ==
    /\ pc[c] = "remove_call"
    /\ Raise(c, "SpotifyException", "remove_call")
    /\ obs' = [obs EXCEPT ![c].removeCalls = @ + 1]
    /\ playlist_count' = [playlist_count EXCEPT
                            ![playlist_id[c]] = @ - obs[c].n]
    /\ UNCHANGED <<remote, playlist_id, batch, page, remove_ids, walks>>

\* playlist.py:107-111 raises; nothing handles it.
RemoveCallFails(c) ==
    /\ pc[c] = "remove_call"
    /\ Raise(c, "SpotifyException", "remove_call")
    /\ obs' = [obs EXCEPT ![c].removeCalls = @ + 1]
    /\ UNCHANGED <<remote, playlist_count, playlist_id, batch, page,
                   remove_ids, walks>>

\* playlist.py:107-111 returns; remove returns and add goes on to line 148.
RemoveCallReturns(c) ==
    LET p == playlist_id[c] IN
    /\ pc[c] = "remove_call"
    /\ remote' = [remote EXCEPT
                    ![p] = RemoveAllOccurrences(@, remove_ids[c])]
    /\ obs' = [obs EXCEPT ![c].removeCalls = @ + 1,
                          ![c].removed = remove_ids[c],
                          ![c].evictFrom = remote[p],
                          ![c].evicted = TRUE]
    /\ pc' = [pc EXCEPT ![c] = "add_call"]
    /\ UNCHANGED <<playlist_count, playlist_id, batch, page, remove_ids,
                   result, walks>>

\* A counting loop that stops after the first page.
WalkStepOnePage(c) ==
    LET p == playlist_id[c] IN
    /\ pc[c] = "walk"
    /\ playlist_count' = [playlist_count EXCEPT ![p] = @ + page[c].total]
    /\ pc' = [pc EXCEPT ![c] = "add_call"]
    /\ UNCHANGED <<remote, playlist_id, batch, page, remove_ids, result,
                   obs, walks>>

\* A counting loop that follows the next page whether or not there is one.
WalkStepNeverStops(c) ==
    LET p == playlist_id[c] IN
    /\ pc[c] = "walk"
    /\ playlist_count' = [playlist_count EXCEPT ![p] = @ + page[c].total]
    /\ pc' = [pc EXCEPT ![c] = "next_call"]
    /\ UNCHANGED <<remote, playlist_id, batch, page, remove_ids, result,
                   obs, walks>>

\* playlist.py:113-120: one turn of the counting loop, up to its remote call.
WalkStep(c) ==
    LET p == playlist_id[c] IN
    /\ pc[c] = "walk"
    /\ playlist_count' = [playlist_count EXCEPT ![p] = @ + page[c].total]
    /\ pc' = [pc EXCEPT ![c] = IF page[c].next THEN "next_call"
                                ELSE "add_call"]
    /\ UNCHANGED <<remote, playlist_id, batch, page, remove_ids, result,
                   obs, walks>>

\* playlist.py:118 returns the following page.
NextReturns(c) ==
    /\ pc[c] = "next_call"
    /\ page' = [page EXCEPT
                  ![c] = PageAt(remote[playlist_id[c]], page[c].offset)]
    /\ pc' = [pc EXCEPT ![c] = "walk"]
    /\ UNCHANGED <<remote, playlist_count, playlist_id, batch, remove_ids,
                   result, obs, walks>>

\* playlist.py:118 raises; nothing handles it.
NextFails(c) ==
    /\ pc[c] = "next_call"
    /\ Raise(c, "SpotifyException", "next_call")
    /\ UNCHANGED <<remote, playlist_count, playlist_id, batch, page,
                   remove_ids, obs, walks>>

\* An append that writes back the count read when add was entered plus
\* len(tracks), instead of raising the count held now.
AddTracksReturnsStale(c) ==
    LET p == playlist_id[c] IN
    /\ pc[c] = "add_call"
    /\ remote' = [remote EXCEPT ![p] = AddTracks(@, batch[c])]
    /\ playlist_count' = [playlist_count EXCEPT
                            ![p] = obs[c].count0 + Len(batch[c])]
    /\ obs' = [obs EXCEPT ![c].addCalls = @ + 1]
    /\ pc' = [pc EXCEPT ![c] = "done"]
    /\ result' = [result EXCEPT ![c] = [exc |-> "none", at |-> "return"]]
    /\ UNCHANGED <<playlist_id, batch, page, remove_ids, walks>>

\* An append that counts in one counter shared by all playlists, instead of
\* the per-playlist Counter of playlist.py:62.
AddTracksReturnsShared(c) ==
    LET p == playlist_id[c] IN
    /\ pc[c] = "add_call"
    /\ remote' = [remote EXCEPT ![p] = AddTracks(@, batch[c])]
    /\ playlist_count' = [q \in PlaylistIDs |->
                            playlist_count[q] + Len(batch[c])]
    /\ obs' = [obs EXCEPT ![c].addCalls = @ + 1]
    /\ pc' = [pc EXCEPT ![c] = "done"]
    /\ result' = [result EXCEPT ![c] = [exc |-> "none", at |-> "return"]]
    /\ UNCHANGED <<playlist_id, batch, page, remove_ids, walks>>

\* playlist.py:148-156: the tracks are added, the count is raised by
\* len(tracks) and the results are returned.
AddTracksReturns(c) ==
    LET p == playlist_id[c] IN
    /\ pc[c] = "add_call"
    /\ remote' = [remote EXCEPT ![p] = AddTracks(@, batch[c])]
    /\ playlist_count' = [playlist_count EXCEPT ![p] = @ + Len(batch[c])]
    /\ obs' = [obs EXCEPT ![c].addCalls = @ + 1]
    /\ pc' = [pc EXCEPT ![c] = "done"]
    /\ result' = [result EXCEPT ![c] = [exc |-> "none", at |-> "return"]]
    /\ UNCHANGED <<playlist_id, batch, page, remove_ids, walks>>

\* An append whose count update precedes the remote call, so that a failed
\* append is counted.
AddTracksFailsCounted(c) ==
    /\ pc[c] = "add_call"
    /\ Raise(c, "TypeError", "add_call")
    /\ obs' = [obs EXCEPT ![c].addCalls = @ + 1]
    /\ playlist_count' = [playlist_count EXCEPT
                            ![playlist_id[c]] = @ + Len(batch[c])]
    /\ UNCHANGED <<remote, playlist_id, batch, page, remove_ids, walks>>

\* playlist.py:157-158: SpotifyException is caught and PlaylistError(str(e))
\* is built, which is a TypeError (playlist.py:25).
AddTracksFails(c) ==
    /\ pc[c] = "add_call"
    /\ Raise(c, "TypeError", "add_call")
    /\ obs' = [obs EXCEPT ![c].addCalls = @ + 1]
    /\ UNCHANGED <<remote, playlist_count, playlist_id, batch, page,
                   remove_ids, walks>>

Step(c, P) ==
    \/ AddCall(c, P)
    \/ UserPlaylistFails(c)
    \/ UserPlaylistReturns(c)
    \/ RemoveCallFails(c)
    \/ RemoveCallReturns(c)
    \/ WalkStep(c)
    \/ NextReturns(c)
    \/ NextFails(c)
    \/ AddTracksReturns(c)
    \/ AddTracksFails(c)

\* The reference design: a single caller, here working on playlist "A".
Next == Step(1, {"A"})

Spec == Init /\ [][Next]_vars

\* Two callers share the SpotifyPlaylist object and playlist "A", with no
\* lock; each calls add once, and their steps interleave at the remote
\* calls.
InitConc == Init /\ remote["B"] = <<>>

NextConc ==
    \E c \in Callers :
        \/ pc[c] = "idle" /\ AddCall(c, {"A"})
        \/ UserPlaylistFails(c)
        \/ UserPlaylistReturns(c)
        \/ RemoveCallFails(c)
        \/ RemoveCallReturns(c)
        \/ WalkStep(c)
        \/ NextReturns(c)
        \/ NextFails(c)
        \/ AddTracksReturns(c)
        \/ AddTracksFails(c)

SpecConc == InitConc /\ [][NextConc]_vars

\* Every remote call of an add in progress returns or fails, and the local
\* code between two calls runs on: the steps of a call that is under way
\* are taken under weak fairness. Whether add is called again is up to the
\* caller.
Run(c) ==
    \/ UserPlaylistFails(c)
    \/ UserPlaylistReturns(c)
    \/ RemoveCallFails(c)
    \/ RemoveCallReturns(c)
    \/ WalkStep(c)
    \/ NextReturns(c)
    \/ NextFails(c)
    \/ AddTracksReturns(c)
    \/ AddTracksFails(c)

InitLive == Init /\ remote["B"] = <<>>

NextLive == AddCall(1, {"A"}) \/ Run(1)

SpecLive == InitLive /\ [][NextLive]_vars /\ WF_vars(Run(1))

\* One Playlist object serving two playlists: the caller's adds go to "A" or
\* to "B" in any order. Batches start at identifier 1; "A" starts with two
\* pages of tracks and "B" empty.
InitIso == Init /\ remote["A"] = <<1, 2, 3>> /\ remote["B"] = <<>>

NextIso ==
    \/ AddCall(1, PlaylistIDs) /\ batch'[1] = Batch(1, Len(batch'[1]))
    \/ UserPlaylistFails(1)
    \/ UserPlaylistReturns(1)
    \/ RemoveCallFails(1)
    \/ RemoveCallReturns(1)
    \/ WalkStep(1)
    \/ NextReturns(1)
    \/ NextFails(1)
    \/ AddTracksReturns(1)
    \/ AddTracksFails(1)

SpecIso == InitIso /\ [][NextIso]_vars

\* playlist.py:113-120 run to the end from the page at `offset`: the sum of
\* the pages' totals.
RECURSIVE WalkTotal(_, _)
WalkTotal(contents, offset) ==
    LET tracks == PageAt(contents, offset)
    IN  tracks.total + (IF tracks.next THEN WalkTotal(contents, tracks.offset)
                                       ELSE 0)

\* playlist.py:64-156 run without interruption and without a remote error
\* on a playlist in state st = [count, contents]: the state it leaves.
SerialAdd(st, tracks) ==
    LET total_tracks == st.count + Len(tracks)
        n == total_tracks - SONG_LIMIT
        first == PageAt(st.contents, 0)
    IN  IF total_tracks >= SONG_LIMIT
        THEN IF n > st.count
             THEN st
             ELSE [count |-> st.count + Len(tracks),
                   contents |-> AddTracks(
                       RemoveAllOccurrences(st.contents,
                                            RemoveList(first.items, n)),
                       tracks)]
        ELSE IF st.count = 0
             THEN [count |-> WalkTotal(st.contents, 0) + Len(tracks),
                   contents |-> AddTracks(st.contents, tracks)]
             ELSE [count |-> st.count + Len(tracks),
                   contents |-> AddTracks(st.contents, tracks)]

\* ---------------------------------------------------------------- claims

NoDup(seq) == \A i, j \in 1..Len(seq) : seq[i] = seq[j] => i = j

IsPrefix(a, b) == Len(a) <= Len(b) /\ SubSeq(b, 1, Len(a)) = a

\* Position of the first occurrence of t in seq (0 when absent).
FirstAt(seq, t) ==
    IF \E i \in 1..Len(seq) : seq[i] = t
    THEN CHOOSE i \in 1..Len(seq) :
            seq[i] = t /\ \A j \in 1..(i - 1) : seq[j] # t
    ELSE 0

Range(seq) == {seq[i] : i \in 1..Len(seq)}

Done(c) == pc[c] = "done"

\* The excess the claims speak of, from the count held when add was called.
Excess(c) ==
    LET total == obs[c].count0 + Len(batch[c])
    IN  IF total >= SONG_LIMIT THEN total - SONG_LIMIT ELSE 0

\* C1. Remote no-overflow: a remote playlist that started with at most
\* SONG_LIMIT tracks and holds no duplicate identifiers never holds more
\* than SONG_LIMIT tracks, whatever adds have run.
C1_RemoteNoOverflow ==
    \A p \in PlaylistIDs :
        NoDup(remote[p]) => Len(remote[p]) <= SONG_LIMIT

\* C2. Tracked no-overflow: an add that starts from a cached count of at
\* most SONG_LIMIT (no walk in this add) ends with a cached count of at most
\* SONG_LIMIT.
C2_TrackedNoOverflow ==
    \A c \in Callers :
        (Done(c) /\ ~obs[c].walked /\ obs[c].count0 <= SONG_LIMIT)
            => playlist_count[playlist_id[c]] <= SONG_LIMIT

\* C3. Cache arithmetic: after a fully successful add of n tracks to a
\* playlist whose cached count was current, the cached count is
\* current - excess + n.
C3_CacheArithmetic ==
    \A c \in Callers :
        (Done(c) /\ result[c].at = "return" /\ ~obs[c].walked)
            => playlist_count[playlist_id[c]]
                 = obs[c].count0 - Excess(c) + Len(batch[c])

\* C4. Partial failure: when the eviction call removed excess > 0 tracks and
\* the append call then failed, add ends with cached count current - excess.
C4_PartialFailureCache ==
    \A c \in Callers :
        (Done(c) /\ result[c].at = "add_call" /\ obs[c].evicted
                 /\ obs[c].n > 0 /\ Len(obs[c].removed) = obs[c].n)
            => playlist_count[playlist_id[c]] = obs[c].count0 - obs[c].n

\* C5. Capacity guard: an add of more than SONG_LIMIT tracks (whose playlist
\* request was answered) fails with PlaylistError, has issued no removal and
\* no append call, and leaves the cached count and the remote contents as
\* they were.
C5_CapacityGuard ==
    \A c \in Callers :
        (Done(c) /\ Len(batch[c]) > SONG_LIMIT
                 /\ result[c].at # "user_playlist")
            => /\ result[c].at = "guard"
               /\ result[c].exc = "PlaylistError"
               /\ obs[c].removeCalls = 0
               /\ obs[c].addCalls = 0
               /\ playlist_count[playlist_id[c]] = obs[c].count0
               /\ remote[playlist_id[c]] = obs[c].remote0

\* C6. Eviction sizing: whenever add is about to issue the removal call
\* (current + n >= SONG_LIMIT and the excess is at most current; the cached
\* count agreeing with the remote length), the number of identifiers it
\* passes is exactly current + n - SONG_LIMIT.
C6_EvictionSizing ==
    \A c \in Callers :
        (pc[c] = "remove_call" /\ obs[c].count0 = Len(obs[c].remote0))
            => Len(remove_ids[c]) = obs[c].count0 + Len(batch[c]) - SONG_LIMIT

\* C7. Oldest first: the identifiers submitted for removal are a prefix of
\* the playlist's contents at that time, and no identifier is evicted while
\* one that first occurs earlier in the playlist is kept.
C7_OldestFirst ==
    \A c \in Callers :
        /\ pc[c] = "remove_call"
            => IsPrefix(remove_ids[c], remote[playlist_id[c]])
        /\ obs[c].evicted
            => /\ IsPrefix(obs[c].removed, obs[c].evictFrom)
               /\ \A x \in Range(obs[c].removed),
                     y \in Range(obs[c].evictFrom) :
                       FirstAt(obs[c].evictFrom, y)
                            < FirstAt(obs[c].evictFrom, x)
                         => y \in Range(obs[c].removed)

\* An add has evicted a non-empty proper prefix of the playlist.
C7_Witness ==
    \E c \in Callers :
        /\ obs[c].evicted
        /\ Len(obs[c].removed) >= 1
        /\ Len(obs[c].removed) < Len(obs[c].evictFrom)

\* C8. Removal failure: once the removal call of an add has failed, the add
\* has ended with an error, has issued no append call, and the cached count
\* is what it was when the add began.
C8_RemovalFailure ==
    \A c \in Callers :
        (obs[c].removeCalls > 0 /\ ~obs[c].evicted)
            => /\ Done(c)
               /\ result[c].exc # "none"
               /\ result[c].at = "remove_call"
               /\ obs[c].addCalls = 0
               /\ playlist_count[playlist_id[c]] = obs[c].count0

\* An add whose removal call, for at least one identifier, has failed.
C8_Witness ==
    \E c \in Callers :
        /\ Done(c)
        /\ result[c].at = "remove_call"
        /\ Len(remove_ids[c]) >= 1
        /\ obs[c].count0 >= 1

\* C9. Every remote error raised during add (playlist request, next page,
\* removal call, append call) reaches the caller as PlaylistError.
C9_RemoteErrorsAreDomainErrors ==
    \A c \in Callers :
        (Done(c) /\ result[c].at \in {"user_playlist", "next_call",
                                       "remove_call", "add_call"})
            => result[c].exc = "PlaylistError"

\* C10. Walk at most once: the size walk of a playlist is started at most
\* once, whatever adds follow.
C10_WalkAtMostOnce ==
    \A p \in PlaylistIDs : walks[p] <= 1

C12_SizeKnownBeforeDecision ==
    \A c \in Callers :
        (/\ pc[c] \notin {"idle", "user_playlist"}
         /\ result[c].at # "user_playlist"
         /\ Len(obs[c].remote0) > 0)
            => obs[c].count0 > 0

\* C13. Cache/remote consistency: an add on a playlist whose count was
\* established earlier and agreed with the remote, with no identifier
\* occurring twice in playlist and batch, ends (success, eviction or
\* failure) with the cached count equal to the remote length.
C13_CacheMatchesRemote ==
    \A c \in Callers :
        (/\ Done(c)
         /\ walks[playlist_id[c]] >= 1
         /\ ~obs[c].walked
         /\ obs[c].count0 = Len(obs[c].remote0)
         /\ NoDup(obs[c].remote0 \o batch[c]))
            => playlist_count[playlist_id[c]] = Len(remote[playlist_id[c]])

\* C14. Baseline before adjust: an add that has raised the cached count by
\* its batch length did so on a playlist whose size walk had been run.
C14_BaselineBeforeAdjust ==
    \A c \in Callers :
        (Done(c) /\ result[c].at = "return" /\ Len(batch[c]) > 0)
            => walks[playlist_id[c]] >= 1

\* C15. No eviction below capacity: in an add with current + n < SONG_LIMIT
\* (current: the cached count) no removal call is issued and every track
\* that was on the remote playlist is still there, in place; and whenever
\* identifiers are submitted for removal, current + n exceeds SONG_LIMIT.
C15_NoEvictionBelowCapacity ==
    \A c \in Callers :
        /\ (pc[c] # "idle" /\ obs[c].count0 + Len(batch[c]) < SONG_LIMIT)
            => /\ pc[c] # "remove_call"
               /\ obs[c].removeCalls = 0
               /\ IsPrefix(obs[c].remote0, remote[playlist_id[c]])
        /\ (pc[c] = "remove_call" /\ Len(remove_ids[c]) > 0)
            => obs[c].count0 + Len(batch[c]) > SONG_LIMIT
        /\ Len(obs[c].removed) > 0
            => obs[c].count0 + Len(batch[c]) > SONG_LIMIT

\* A successful add of tracks to a tracked, non-empty playlist below the
\* limit.
C15_Witness ==
    \E c \in Callers :
        /\ Done(c)
        /\ result[c].at = "return"
        /\ ~obs[c].walked
        /\ obs[c].count0 >= 1
        /\ Len(obs[c].remote0) >= 1
        /\ Len(batch[c]) >= 1
        /\ obs[c].count0 + Len(batch[c]) < SONG_LIMIT

\* C16. Append failure does not count the batch: the step in which the
\* append call of an add fails leaves every cached count (and the remote)
\* as it was before the append was attempted.
C16_AppendFailureNotCounted ==
    [][\A c \in Callers :
          (pc[c] = "add_call" /\ result'[c].at = "add_call")
              => /\ playlist_count' = playlist_count
                 /\ remote' = remote
                 /\ pc'[c] = "done"
                 /\ result'[c].exc # "none"]_vars

\* An add of at least one track whose append call has failed.
C16_Witness ==
    \E c \in Callers :
        /\ Done(c)
        /\ result[c].at = "add_call"
        /\ Len(batch[c]) >= 1
        /\ obs[c].addCalls = 1

\* C17. Empty batch is benign: an add with an empty track list removes no
\* track from the remote playlist and, when it ends without having walked,
\* leaves the cached count as it was.
C17_EmptyBatchBenign ==
    \A c \in Callers :
        (pc[c] # "idle" /\ Len(batch[c]) = 0)
            => /\ remote[playlist_id[c]] = obs[c].remote0
               /\ (Done(c) /\ ~obs[c].walked)
                    => playlist_count[playlist_id[c]] = obs[c].count0

\* The state of a playlist, and the state an add started from.
Now(p) == [count |-> playlist_count[p], contents |-> remote[p]]

Entry(c) == [count |-> obs[c].count0, contents |-> obs[c].remote0]

C19_PerPlaylistIsolation ==
    [][\A c \in Callers :
         pc[c] \notin {"idle", "done"} =>
             /\ playlist_id'[c] = playlist_id[c]
             /\ \A q \in PlaylistIDs \ {playlist_id[c]} :
                    /\ playlist_count'[q] = playlist_count[q]
                    /\ remote'[q] = remote[q]
                    /\ walks'[q] = walks[q]]_vars

\* An add against "A" that evicted tracks has finished while "B" is tracked
\* and holds tracks of its own.
C19_Witness ==
    /\ Done(1)
    /\ playlist_id[1] = "A"
    /\ obs[1].removed # <<>>
    /\ result[1].at = "return"
    /\ playlist_count["B"] > 0
    /\ remote["B"] # <<>>

\* Where an add can end: the append returned, or the call left add at the
\* capacity guard, at the eviction call or at the append call.
ListedEnds == {"return", "guard", "remove_call", "add_call"}

\* ... or at one of the two calls that fetch a page (playlist.py:80, 118).
FetchEnds == {"user_playlist", "next_call"}

\* C20 as stated. Termination: every call of add ends, either done (the
\* append returned) or failed at the capacity guard, the eviction call or
\* the append call, and in no other way; the counting loop leaves for the
\* append once the page at hand has no next page.
C20_TerminatesAsListed ==
    /\ \A c \in Callers : pc[c] \notin {"idle", "done"} ~> Done(c)
    /\ [](\A c \in Callers : Done(c) => result[c].at \in ListedEnds)
    /\ [][\A c \in Callers :
            (pc[c] = "walk" /\ ~page[c].next) => pc'[c] = "add_call"]_vars

\* C20, amended. Termination: every call of add ends, either done (the
\* append returned) or failed at the capacity guard, at the eviction call,
\* at the append call or at a call that fetches a page; the counting loop
\* leaves for the append once the page at hand has no next page.
C20_Terminates ==
    /\ \A c \in Callers : pc[c] \notin {"idle", "done"} ~> Done(c)
    /\ [](\A c \in Callers :
            Done(c) => result[c].at \in ListedEnds \cup FetchEnds)
    /\ [][\A c \in Callers :
            (pc[c] = "walk" /\ ~page[c].next) => pc'[c] = "add_call"]_vars

\* An add that counted a playlist of more than one page has returned.
C20_Witness ==
    /\ Done(1)
    /\ result[1].at = "return"
    /\ obs[1].walked
    /\ Len(obs[1].remote0) > PageSize
    /\ playlist_count[playlist_id[1]] = Len(obs[1].remote0) + Len(batch[1])

====
